---- MODULE Spec2Model ----
(***************************************************************************)
(* A model of the hospital records dashboard: the data-protection helpers  *)
(* of utils.py (anonymization, masking, role-based field visibility,       *)
(* encryption, password hashing) and the session / patient-table logic of  *)
(* streamlit_app.py.                                                       *)
(*                                                                         *)
(* A Python str is a sequence of one-character strings.  Python's None is  *)
(* the sentinel sequence None, and an exception raised by a str-valued     *)
(* function is a sentinel sequence named after the exception; neither can  *)
(* be confused with a str because their single element is not a character. *)
(***************************************************************************)
EXTENDS Integers, Sequences, FiniteSets, TLC

VARIABLES
    \* ---- a caller of mask_sensitive_data (utils.py) ----
    pc,         \* "start" | "returned" | "raised" : position of the caller
    role,       \* the role string passed to mask_sensitive_data
    heap,       \* object store: reference -> dict (field name -> value)
    arg,        \* reference of the dict the caller passes in
    given,      \* the value of the caller's dict at the time of the call
    ret,        \* reference returned by the call (0: nothing returned)
    exc,        \* exception that left the call ("" when none)
    mutations,  \* number of later changes the caller made to the result
    \* ---- users of EncryptionManager (utils.py) ----
    tokens,     \* the encrypt calls made: [key, pt, ct]
    dec,        \* the last decrypt call: [key, ct, kind, out] (a set of <= 1)
    \* ---- users of hash_password / verify_password (utils.py) ----
    bcrypt_build,  \* how the installed bcrypt treats a password over 72 bytes
    hashed,     \* the last hash_password call: [pw, out] (a set of <= 1)
    hashes,     \* the hash strings hash_password has returned: [pw, hash]
    ver,        \* the last verify_password call: [pw, of, hash, out]
    \* ---- the dashboard (streamlit_app.py) ----
    session_state,  \* st.session_state of the browser session
    patients,   \* the patients table, in patient_id order
    log_tail,   \* the rows the latest script run appended to the logs table
    page,       \* what the latest script run rendered:
                \* [kind, table, found, error]
    now,        \* datetime.now(), in days
    \* ---- direct callers of the functions of utils.py ----
    call        \* the last call made: [fn, args, out] (fn = "" before any)

maskVars == <<pc, role, heap, arg, given, ret, exc, mutations>>
cipherVars == <<tokens, dec>>
hashVars == <<bcrypt_build, hashed, hashes, ver>>

appVars == <<session_state, patients, log_tail, page, now>>

utilVars == <<call>>

vars == <<maskVars, cipherVars, hashVars, appVars, utilVars>>

\* Each part of the program is explored by a specification of its own; these
\* are the states of the parts it leaves alone.
MaskOff ==
    /\ pc = "off" /\ role = "" /\ heap = <<>> /\ arg = 0 /\ given = <<>>
    /\ ret = 0 /\ exc = "" /\ mutations = 0

CipherOff == tokens = {} /\ dec = {}

HashOff == bcrypt_build = "" /\ hashed = {} /\ hashes = {} /\ ver = {}

AppOff ==
    /\ session_state = <<>> /\ patients = <<>> /\ log_tail = <<>>
    /\ page = <<>> /\ now = 0

NoCall == [fn |-> "", args |-> <<>>, out |-> <<>>]

UtilOff == call = NoCall

-----------------------------------------------------------------------------
(* Python values *)

None == <<"<None>">>
IndexError == <<"<IndexError>">>
ValueError == <<"<ValueError>">>
InvalidToken == <<"<InvalidToken>">>
Absent == <<"<absent>">>

\* Python truthiness of a str-or-None value: `not x`
Falsy(x) == x = None \/ x = <<>>

IsRaise(x) == x \in {IndexError, ValueError, InvalidToken}

Min(S) == CHOOSE x \in S : \A y \in S : x <= y
Max(S) == CHOOSE x \in S : \A y \in S : x >= y

Contains(s, c) == \E i \in 1..Len(s) : s[i] = c

\* c * n
Repeat(c, n) == [i \in 1..n |-> c]

\* s.split(sep) for a one-character separator
Split(s, sep) ==
    LET F[i \in 0..Len(s)] ==
            IF i = 0 THEN << <<>> >>
            ELSE LET p == F[i - 1] IN
                 IF s[i] = sep THEN Append(p, <<>>)
                 ELSE [p EXCEPT ![Len(p)] = Append(@, s[i])]
    IN F[Len(s)]

IsSpace(c) == c \in {" ", "\t", "\n"}

\* s.strip()
Strip(s) ==
    LET keep == {i \in 1..Len(s) : ~IsSpace(s[i])} IN
    IF keep = {} THEN <<>> ELSE SubSeq(s, Min(keep), Max(keep))

\* the regular-expression class \d on the characters the model uses
IsDigit(c) == c \in {"0", "1", "2", "3", "4", "5", "6", "7", "8", "9"}

DigitChars == <<"0", "1", "2", "3", "4", "5", "6", "7", "8", "9">>

RECURSIVE DecStr(_)
\* str(n) for n >= 0
DecStr(n) == IF n < 10 THEN <<DigitChars[n + 1]>>
             ELSE Append(DecStr(n \div 10), DigitChars[(n % 10) + 1])

ZeroPad(s, w) == IF Len(s) >= w THEN s ELSE Repeat("0", w - Len(s)) \o s

\* format(n, "04d"): the sign counts towards the width
Fmt04d(n) == IF n >= 0 THEN ZeroPad(DecStr(n), 4)
             ELSE <<"-">> \o ZeroPad(DecStr(-n), 3)

\* hashlib.md5(name.encode()).hexdigest()[:8], tabulated for the names used
MD5Hex8(name) ==
    CASE name = <<"A", "l">> -> <<"1", "9", "7", "c", "d", "c", "c", "5">>
      [] name = <<"B", "o">> -> <<"b", "0", "d", "8", "9", "1", "3", "d">>
      [] name = <<" ">>      -> <<"7", "2", "1", "5", "e", "e", "9", "c">>

\* str.upper() on hexadecimal digits
Upper(s) ==
    [i \in 1..Len(s) |->
        CASE s[i] = "a" -> "A" [] s[i] = "b" -> "B" [] s[i] = "c" -> "C"
          [] s[i] = "d" -> "D" [] s[i] = "e" -> "E" [] s[i] = "f" -> "F"
          [] OTHER -> s[i]]

-----------------------------------------------------------------------------
(* utils.py: anonymization and masking *)

\* an optional integer argument: <<>> is None, <<n>> is the integer n
NoId == <<>>
IdOf(n) == <<n>>

anonymize_name(name, patient_id) ==
    IF Falsy(name) THEN None
    ELSE IF patient_id # NoId /\ patient_id[1] # 0
         THEN <<"A", "N", "O", "N", "_">> \o Fmt04d(patient_id[1])
         ELSE <<"A", "N", "O", "N", "_">> \o Upper(MD5Hex8(name))

mask_contact_first_four(contact) ==
    IF Falsy(contact) THEN None
    ELSE LET digits == SelectSeq(contact, IsDigit) IN
         IF Len(digits) >= 4
         THEN <<"X", "X", "X", "-", "X", "X", "X", "-">> \o SubSeq(digits, 1, 4)
         ELSE <<"X", "X", "X", "-", "X", "X", "X", "-", "X", "X", "X", "X">>

mask_contact(contact) ==
    IF Falsy(contact) THEN None
    ELSE LET digits == SelectSeq(contact, IsDigit) IN
         IF Len(digits) >= 4
         THEN <<"X", "X", "X", "-", "X", "X", "X", "-">>
                  \o SubSeq(digits, Len(digits) - 3, Len(digits))
         ELSE <<"X", "X", "X", "-", "X", "X", "X", "-", "X", "X", "X", "X">>

mask_email(email) ==
    IF Falsy(email) \/ ~Contains(email, "@") THEN None
    ELSE LET parts == Split(email, "@")
             username == parts[1]
             domain == parts[2]
         IN IF Len(username) = 0 THEN IndexError   \* username[0]
            ELSE LET masked_username ==
                         IF Len(username) <= 2 THEN <<username[1], "*">>
                         ELSE <<username[1]>> \o Repeat("*", Len(username) - 1)
                 IN masked_username \o <<"@">> \o domain

anonymize_address(address) ==
    IF Falsy(address) THEN None
    ELSE LET parts == Split(address, ",") IN
         IF Len(parts) > 1
         THEN <<"*", "*", "*", "*", "*", ",", " ">> \o Strip(parts[Len(parts)])
         ELSE <<"*", "*", "*", "*", "*">>

\* str.split(): the maximal runs of non-whitespace characters
Words(s) ==
    LET F[i \in 0..Len(s)] ==
            IF i = 0 THEN <<>>
            ELSE IF IsSpace(s[i]) THEN F[i - 1]
            ELSE IF i > 1 /\ ~IsSpace(s[i - 1])
                 THEN [F[i - 1] EXCEPT ![Len(F[i - 1])] = Append(@, s[i])]
                 ELSE Append(F[i - 1], <<s[i]>>)
    IN F[Len(s)]

CONFIDENTIAL ==
    <<"*", "*", "*", "C", "O", "N", "F", "I", "D", "E", "N", "T", "I", "A", "L",
      "*", "*", "*">>

mask_diagnosis(diagnosis, mask_level) ==
    IF Falsy(diagnosis) THEN None
    ELSE IF mask_level = "full" THEN CONFIDENTIAL
    ELSE LET words == Words(diagnosis) IN
         IF Len(words) > 1 THEN words[1] \o <<" ", "*", "*", "*">>
         ELSE diagnosis

-----------------------------------------------------------------------------
(* utils.py: validation and sanitization *)

AsciiDigits == {"0", "1", "2", "3", "4", "5", "6", "7", "8", "9"}

Letters ==
    {"a", "b", "c", "d", "e", "f", "g", "h", "i", "j", "k", "l", "m",
     "n", "o", "p", "q", "r", "s", "t", "u", "v", "w", "x", "y", "z",
     "A", "B", "C", "D", "E", "F", "G", "H", "I", "J", "K", "L", "M",
     "N", "O", "P", "Q", "R", "S", "T", "U", "V", "W", "X", "Y", "Z"}

AllIn(s, chars) == \A i \in 1..Len(s) : s[i] \in chars

\* The texts a pattern ending in $ may match in full: $ matches at the end
\* of the string and also just before a line break that ends the string.
UpToDollar(s) ==
    {s} \cup (IF Len(s) > 0 /\ s[Len(s)] = "\n"
              THEN {SubSeq(s, 1, Len(s) - 1)} ELSE {})

\* \+?[0-9]{10,15} matching all of s
ContactPattern(s) ==
    LET body == IF Len(s) > 0 /\ s[1] = "+" THEN Tail(s) ELSE s IN
    Len(body) >= 10 /\ Len(body) <= 15 /\ AllIn(body, AsciiDigits)

validate_contact(contact) ==
    IF Falsy(contact) THEN FALSE
    ELSE \E t \in UpToDollar(contact) : ContactPattern(t)

\* [a-zA-Z0-9._%+-]+@[a-zA-Z0-9.-]+\.[a-zA-Z]{2,} matching all of s
EmailPattern(s) ==
    \E at \in 1..Len(s) : \E dot \in (at + 1)..Len(s) :
        /\ s[at] = "@" /\ s[dot] = "."
        /\ at > 1
        /\ AllIn(SubSeq(s, 1, at - 1),
                 Letters \cup AsciiDigits \cup {".", "_", "%", "+", "-"})
        /\ dot > at + 1
        /\ AllIn(SubSeq(s, at + 1, dot - 1), Letters \cup AsciiDigits \cup {".", "-"})
        /\ Len(s) - dot >= 2
        /\ AllIn(SubSeq(s, dot + 1, Len(s)), Letters)

validate_email(email) ==
    IF Falsy(email) THEN FALSE
    ELSE \E t \in UpToDollar(email) : EmailPattern(t)

DefaultMaxLength == 500

\* text[:n]
Slice(text, n) ==
    IF n >= 0 THEN SubSeq(text, 1, IF n < Len(text) THEN n ELSE Len(text))
    ELSE SubSeq(text, 1, Len(text) + n)

IsUnsafe(c) == c \in {";", "'", "\"", "\\"}
IsSafe(c) == ~IsUnsafe(c)

sanitize_input_uncut(text, max_length) ==
    IF Falsy(text) THEN <<>>
    ELSE SelectSeq(text, IsSafe)

sanitize_input(text, max_length) ==
    IF Falsy(text) THEN <<>>
    ELSE Slice(SelectSeq(text, IsSafe), max_length)

-----------------------------------------------------------------------------
(* utils.py: mask_sensitive_data *)

RESTRICTED ==
    <<"*", "*", "*", "R", "E", "S", "T", "R", "I", "C", "T", "E", "D", "*", "*", "*">>

Has(d, f) == f \in DOMAIN d

\* d[f] = v on a dict
Put(d, f, v) == [g \in (DOMAIN d) \cup {f} |-> IF g = f THEN v ELSE d[g]]

\* the doctor branch: name, then contact, then email
MaskDoctor(d) ==
    LET m1 == IF Has(d, "name")
              THEN Put(d, "name",
                       IF Has(d, "anonymized_name") THEN d["anonymized_name"]
                       ELSE anonymize_name(d["name"], NoId))
              ELSE d
        m2 == IF Has(m1, "contact")
              THEN Put(m1, "contact", mask_contact(m1["contact"]))
              ELSE m1
        e  == IF Has(m2, "email") THEN mask_email(m2["email"]) ELSE None
    IN IF IsRaise(e) THEN [exc |-> "IndexError", val |-> m2, alias |-> FALSE]
       ELSE [exc |-> "",
             val |-> IF Has(m2, "email") THEN Put(m2, "email", e) ELSE m2,
             alias |-> FALSE]

\* a receptionist branch that forgets the diagnosis
MaskReceptionistKeepsDiagnosis(d) ==
    [exc |-> "",
     val |-> IF Has(d, "address")
             THEN Put(d, "address", anonymize_address(d["address"]))
             ELSE d,
     alias |-> FALSE]

\* the receptionist branch: diagnosis, then address
MaskReceptionist(d) ==
    LET m1 == IF Has(d, "diagnosis") THEN Put(d, "diagnosis", RESTRICTED) ELSE d
        m2 == IF Has(m1, "address")
              THEN Put(m1, "address", anonymize_address(m1["address"]))
              ELSE m1
    IN [exc |-> "", val |-> m2, alias |-> FALSE]

\* a dispatch without the early return for 'admin'
mask_sensitive_data_admin_masked(data_dict, r) ==
    IF r \in {"admin", "doctor"} THEN MaskDoctor(data_dict)
    ELSE IF r = "receptionist" THEN MaskReceptionist(data_dict)
    ELSE [exc |-> "", val |-> data_dict, alias |-> FALSE]

\* The outcome of mask_sensitive_data(data_dict, role):
\*   exc   - the exception that leaves the call, "" when it returns;
\*   val   - the value of the dict returned;
\*   alias - TRUE when the object returned is data_dict itself,
\*           FALSE when it is the new dict made by data_dict.copy().
mask_sensitive_data(data_dict, r) ==
    IF r = "admin" THEN [exc |-> "", val |-> data_dict, alias |-> TRUE]
    ELSE IF r = "doctor" THEN MaskDoctor(data_dict)
    ELSE IF r = "receptionist" THEN MaskReceptionist(data_dict)
    ELSE [exc |-> "", val |-> data_dict, alias |-> FALSE]

-----------------------------------------------------------------------------
(* utils.py: EncryptionManager over cryptography's Fernet *)

\* A Fernet token is version || timestamp || IV || ciphertext || HMAC.  The
\* model keeps what decides a decryption: the key it was made under, the
\* random IV, whether the HMAC still matches the body, and the plaintext.
FernetEncrypt(key, iv, data) == <<"<fernet>", key, iv, "mac-ok">> \o data

\* Fernet.decrypt: the plaintext, or InvalidToken when the text is no token,
\* the HMAC does not verify under this key, or the token was altered
FernetDecrypt(key, token) ==
    IF /\ Len(token) >= 4
       /\ token[1] = "<fernet>"
       /\ token[2] = key
       /\ token[4] = "mac-ok"
    THEN SubSeq(token, 5, Len(token))
    ELSE InvalidToken

\* a token altered in storage or transit
Tamper(token) == [token EXCEPT ![4] = "mac-bad"]

\* an encrypt that loses the end of the plaintext
encrypt_cut(key, iv, plaintext) ==
    IF Falsy(plaintext) THEN None
    ELSE FernetEncrypt(key, iv, SubSeq(plaintext, 1, Len(plaintext) - 1))

\* EncryptionManager(key).encrypt(plaintext); iv is Fernet's random IV
encrypt(key, iv, plaintext) ==
    IF Falsy(plaintext) THEN None
    ELSE FernetEncrypt(key, iv, plaintext)

\* a decrypt without its try/except
decrypt_unguarded(key, ciphertext) ==
    IF Falsy(ciphertext) THEN None
    ELSE FernetDecrypt(key, ciphertext)

\* EncryptionManager(key).decrypt(ciphertext)
decrypt(key, ciphertext) ==
    IF Falsy(ciphertext) THEN None
    ELSE LET out == FernetDecrypt(key, ciphertext) IN
         IF IsRaise(out) THEN None     \* except Exception: return None
         ELSE out

MaxTokens == 2

Keys == {"k1", "k2"}
IVs == {"iv1", "iv2"}
Plaintexts == {None, <<>>, <<"a">>, <<"a", "b">>}
Garbage == {<<"x">>, <<"g", "A", "A">>, <<"<fernet>">>}

\* ct = EncryptionManager(key).encrypt(x)
Encrypt ==
    /\ Cardinality(tokens) < MaxTokens
    /\ \E key \in Keys, iv \in IVs, x \in Plaintexts :
           tokens' = tokens \cup {[key |-> key, pt |-> x, ct |-> encrypt(key, iv, x)]}
    /\ UNCHANGED <<dec, maskVars, hashVars, appVars, utilVars>>

\* EncryptionManager(key).decrypt(ct) on something an encrypt call returned
DecryptGenuine ==
    /\ \E key \in Keys, t \in tokens :
           dec' = {[key |-> key, ct |-> t.ct, kind |-> "genuine",
                    out |-> decrypt(key, t.ct)]}
    /\ UNCHANGED <<tokens, maskVars, hashVars, appVars, utilVars>>

\* ... on a token whose bytes were altered
DecryptTampered ==
    /\ \E key \in Keys, t \in tokens :
           /\ ~Falsy(t.ct)
           /\ dec' = {[key |-> key, ct |-> Tamper(t.ct), kind |-> "tampered",
                       out |-> decrypt(key, Tamper(t.ct))]}
    /\ UNCHANGED <<tokens, maskVars, hashVars, appVars, utilVars>>

\* ... on a text that is no token at all
DecryptMalformed ==
    /\ \E key \in Keys, g \in Garbage :
           dec' = {[key |-> key, ct |-> g, kind |-> "malformed",
                    out |-> decrypt(key, g)]}
    /\ UNCHANGED <<tokens, maskVars, hashVars, appVars, utilVars>>

CipherNext == Encrypt \/ DecryptGenuine \/ DecryptTampered \/ DecryptMalformed

CipherInit == MaskOff /\ CipherOff /\ HashOff /\ AppOff /\ UtilOff

SpecCipher == CipherInit /\ [][CipherNext]_vars

C8_DecryptFailsToNone ==
    \A d \in dec :
        /\ ~IsRaise(d.out)
        /\ d.kind \in {"malformed", "tampered"} => d.out = None
        /\ \A t \in tokens :
               (d.kind = "genuine" /\ t.ct = d.ct /\ t.key # d.key)
                   => (d.out = None /\ (~Falsy(t.pt) => d.out # t.pt))

C8_Witness ==
    \E d \in dec : \E t \in tokens :
        /\ d.kind = "genuine" /\ t.ct = d.ct /\ t.key # d.key
        /\ t.pt = <<"a", "b">> /\ d.out = None

-----------------------------------------------------------------------------
(* utils.py: hash_password / verify_password over bcrypt *)

\* bcrypt uses at most this many bytes of a password
BcryptMaxBytes == 72

\* bcrypt.hashpw(password, salt).  The digest is taken to be collision-free:
\* it is represented by the (salt, key) it was computed from.  A password over
\* 72 bytes is cut to 72 by the releases that follow OpenBSD's bcrypt and
\* rejected with ValueError by the later ones.
hashpw(build, password, salt) ==
    IF Len(password) > BcryptMaxBytes
    THEN IF build = "raise" THEN ValueError
         ELSE <<"$2b$12$", salt>> \o SubSeq(password, 1, BcryptMaxBytes)
    ELSE <<"$2b$12$", salt>> \o password

\* bcrypt.checkpw(password, hashed_password): [raised, val]
checkpw(build, password, hashed_password) ==
    IF Len(hashed_password) < 2 \/ hashed_password[1] # "$2b$12$"
    THEN [raised |-> TRUE, val |-> FALSE]          \* ValueError: Invalid salt
    ELSE LET again == hashpw(build, password, hashed_password[2]) IN
         IF IsRaise(again) THEN [raised |-> TRUE, val |-> FALSE]
         ELSE [raised |-> FALSE, val |-> (again = hashed_password)]

\* hash_password(password); salt is what bcrypt.gensalt(rounds=12) drew
hash_password(build, salt, password) == hashpw(build, password, salt)

\* verify_password(password, hashed_password)
verify_password(build, password, hashed_password) ==
    LET result == checkpw(build, password, hashed_password) IN
    IF result.raised THEN FALSE       \* except Exception: return False
    ELSE result.val

MaxHashes == 2
MaxTail == 1

Salts == {"salt1", "salt2"}

\* passwords around bcrypt's limit: a run of 'a' and a short tail
Tails == UNION {[1..n -> {"b", "c"}] : n \in 0..MaxTail}
Passwords == {Repeat("a", n) \o t : n \in {0, BcryptMaxBytes - 1, BcryptMaxBytes},
                                     t \in Tails}

HashStart ==
    /\ bcrypt_build \in {"truncate", "raise"}
    /\ hashed = {} /\ hashes = {} /\ ver = {}

\* h = hash_password(p)
HashPassword ==
    /\ Cardinality(hashes) < MaxHashes
    /\ \E p \in Passwords, salt \in Salts :
           LET out == hash_password(bcrypt_build, salt, p) IN
           /\ hashed' = {[pw |-> p, out |-> out]}
           /\ hashes' = IF IsRaise(out) THEN hashes
                        ELSE hashes \cup {[pw |-> p, hash |-> out]}
    /\ UNCHANGED <<bcrypt_build, ver, maskVars, cipherVars, appVars, utilVars>>

\* verify_password(p, h) for a hash string h that hash_password returned
VerifyPassword ==
    /\ \E p \in Passwords, h \in hashes :
           ver' = {[pw |-> p, of |-> h.pw, hash |-> h.hash,
                    out |-> verify_password(bcrypt_build, p, h.hash)]}
    /\ UNCHANGED <<bcrypt_build, hashed, hashes, maskVars, cipherVars, appVars, utilVars>>

HashNext == HashPassword \/ VerifyPassword

HashInit == MaskOff /\ CipherOff /\ HashStart /\ AppOff /\ UtilOff

SpecHash == HashInit /\ [][HashNext]_vars

\* C9: for all non-empty passwords p and p2, hash_password(p) returns a hash
\* string, verify_password(p, hash_password(p)) is true and
\* verify_password(p, hash_password(p2)) is false when p # p2, for every
\* salted hash string hash_password returns.
C9_VerifyIffSamePassword ==
    /\ \A h \in hashed : ~Falsy(h.pw) => ~IsRaise(h.out)
    /\ \A v \in ver : (~Falsy(v.pw) /\ ~Falsy(v.of)) => (v.out <=> (v.pw = v.of))

\* C10: hash_password('') fails with an error and returns no hash string.
C10_EmptyPasswordRejected ==
    \A h \in hashed : h.pw = <<>> => IsRaise(h.out)

-----------------------------------------------------------------------------
(* A caller of mask_sensitive_data: builds a dict, calls, and later changes *)
(* what it got back.                                                         *)

MaxMutations == 1

Fields == <<"name", "anonymized_name", "contact", "email", "address",
            "diagnosis", "blood_group">>

NameValues == {Absent, None, <<>>, <<"A", "l">>}
AnonNameValues == {Absent, None, <<"A", "N", "O", "N", "_", "0", "0", "0", "7">>}
ContactValues == {Absent, None, <<"+", "1", "-", "2", "3", "4", "5", "6">>, <<"1", "2">>}
EmailValues == {Absent, None, <<"j", "o", "@", "x">>, <<"j", "o", "h", "n", "@", "x">>,
                <<"@", "x">>, <<"n", "o">>}
AddressValues == {Absent, None, <<"1", " ", "S", "t", ",", " ", "K", "a", "r">>}
DiagnosisValues == {Absent, <<"F", "l", "u">>}
BloodValues == {Absent, <<"A", "+">>}

RoleValues == {"admin", "doctor", "receptionist", "nurse"}

\* the dict with the fields of the tuple t that are not Absent
DictOf(t) ==
    [f \in {Fields[i] : i \in {j \in 1..Len(Fields) : t[j] # Absent}} |->
        t[CHOOSE i \in 1..Len(Fields) : Fields[i] = f]]

Dicts == {DictOf(t) : t \in NameValues \X AnonNameValues \X ContactValues
                              \X EmailValues \X AddressValues
                              \X DiagnosisValues \X BloodValues}

Changed == <<"Z">>

MaskStart ==
    /\ pc = "start"
    /\ role \in RoleValues
    /\ \E d \in Dicts : heap = (1 :> d) /\ given = d
    /\ arg = 1
    /\ ret = 0
    /\ exc = ""
    /\ mutations = 0

\* result = mask_sensitive_data(record, role)
MaskCall ==
    /\ pc = "start"
    /\ LET out == mask_sensitive_data(heap[arg], role) IN
       IF out.exc # ""
       THEN /\ pc' = "raised"
            /\ exc' = out.exc
            /\ UNCHANGED <<heap, ret, utilVars>>
       ELSE /\ pc' = "returned"
            /\ exc' = ""
            /\ IF out.alias
               THEN ret' = arg /\ UNCHANGED heap
               ELSE ret' = 2 /\ heap' = heap @@ (2 :> out.val)
    /\ UNCHANGED <<role, arg, given, mutations, cipherVars, hashVars, appVars, utilVars>>

\* result[f] = "Z": the caller changes the dict it got back
MutateResult ==
    /\ pc = "returned"
    /\ mutations < MaxMutations
    /\ \E i \in 1..Len(Fields) :
           heap' = [heap EXCEPT ![ret] = Put(@, Fields[i], Changed)]
    /\ mutations' = mutations + 1
    /\ UNCHANGED <<pc, role, arg, given, ret, exc, cipherVars, hashVars, appVars, utilVars>>

MaskNext == MaskCall \/ MutateResult

MaskInit == MaskStart /\ CipherOff /\ HashOff /\ AppOff /\ UtilOff

SpecMask == MaskInit /\ [][MaskNext]_vars

-----------------------------------------------------------------------------
(* Claims about mask_sensitive_data, checked under SpecMask *)

\* the record the call returned, as it was when returned
Returned == heap[ret]

\* C1: for role 'doctor' and every record, mask_sensitive_data returns a
\* record whose name is the record's anonymized_name when the record has that
\* field and anonymize_name(name) otherwise, whose contact is
\* mask_contact(contact), whose email is mask_email(email), and whose other
\* fields (diagnosis and blood group among them) equal the input's.
C1_DoctorRecord ==
    (role = "doctor" /\ pc # "start" /\ mutations = 0) =>
        /\ pc = "returned"
        /\ DOMAIN Returned = DOMAIN given
        /\ \A f \in DOMAIN given :
               Returned[f] =
                   CASE f = "name" ->
                            IF Has(given, "anonymized_name")
                            THEN given["anonymized_name"]
                            ELSE anonymize_name(given["name"], NoId)
                     [] f = "contact" -> mask_contact(given["contact"])
                     [] f = "email" -> mask_email(given["email"])
                     [] OTHER -> given[f]

\* C2: for role 'receptionist' and every record, the returned record's
\* diagnosis is the constant '***RESTRICTED***' whatever the input's was, its
\* address is anonymize_address(address), and name, contact and email are the
\* input's; no field is added or dropped.
C2_ReceptionistRecord ==
    (role = "receptionist" /\ pc # "start" /\ mutations = 0) =>
        /\ pc = "returned"
        /\ DOMAIN Returned = DOMAIN given
        /\ Has(given, "diagnosis") => Returned["diagnosis"] = RESTRICTED
        /\ Has(given, "address") =>
               Returned["address"] = anonymize_address(given["address"])
        /\ \A f \in {"name", "contact", "email"} \cap DOMAIN given :
               Returned[f] = given[f]

C2_Witness ==
    /\ role = "receptionist" /\ pc = "returned" /\ mutations = 0
    /\ {"name", "contact", "email", "diagnosis", "address"} \subseteq DOMAIN given
    /\ given["diagnosis"] = <<"F", "l", "u">>
    /\ ~Falsy(given["address"]) /\ ~Falsy(given["name"])
    /\ Returned["address"] = <<"*", "*", "*", "*", "*", ",", " ", "K", "a", "r">>

\* C3: for every role and record, mask_sensitive_data leaves the record
\* passed in unchanged and returns a separate object, so that a later change
\* to the result never shows in the caller's record.
C3_SeparateCopy ==
    (pc = "returned") => (ret # arg /\ heap[arg] = given)

\* C4: for role 'admin' and every record, the record returned has the same
\* fields with the same values as the input.
C4_AdminUnchanged ==
    (role = "admin" /\ pc # "start" /\ mutations = 0) =>
        (pc = "returned" /\ Returned = given)

C4_Witness ==
    /\ role = "admin" /\ pc = "returned" /\ mutations = 0
    /\ {"name", "contact", "email", "diagnosis", "address"} \subseteq DOMAIN given
    /\ \A f \in {"name", "contact", "email", "address"} : ~Falsy(given[f])

-----------------------------------------------------------------------------
(* streamlit_app.py: tables, queries and the patient operations *)

Admin123 == <<"a", "d", "m", "i", "n", "1", "2", "3">>

RoleNone == "<None>"

\* The users table.  Rows 1-3 are the demo accounts the login page lists
\* (all with password admin123); row 4 is an account whose role is none of
\* the three the dashboard knows, row 5 a deactivated account.
Users ==
    << [user_id |-> 1, username |-> <<"a", "d", "m", "i", "n">>,
        password_hash |-> <<"$2b$12$", "salt1">> \o Admin123,
        role |-> "admin", is_active |-> TRUE],
       [user_id |-> 2, username |-> <<"d", "r", "_", "b", "o", "b">>,
        password_hash |-> <<"$2b$12$", "salt2">> \o Admin123,
        role |-> "doctor", is_active |-> TRUE],
       [user_id |-> 3,
        username |-> <<"a", "l", "i", "c", "e", "_", "r", "e", "c", "e", "p">>,
        password_hash |-> <<"$2b$12$", "salt1">> \o Admin123,
        role |-> "receptionist", is_active |-> TRUE],
       [user_id |-> 4, username |-> <<"n", "u", "r", "s", "e">>,
        password_hash |-> <<"$2b$12$", "salt2">> \o Admin123,
        role |-> "nurse", is_active |-> TRUE],
       [user_id |-> 5, username |-> <<"o", "l", "d">>,
        password_hash |-> <<"$2b$12$", "salt1">> \o Admin123,
        role |-> "doctor", is_active |-> FALSE] >>

\* How the database answers the statements of one script run: whether the
\* SELECT inside a patient operation, its INSERT / UPDATE, and the INSERTs
\* into logs succeed.  execute_query rolls a failed statement back and
\* returns None.
DbUp == [select |-> TRUE, stmt |-> TRUE, log |-> TRUE]
DbOutcomes == {DbUp, [DbUp EXCEPT !.select = FALSE], [DbUp EXCEPT !.stmt = FALSE],
               [DbUp EXCEPT !.log = FALSE]}
\* the outcomes that differ for a run whose only statements write to logs
LogOutcomes == {DbUp, [DbUp EXCEPT !.log = FALSE]}
\* ... and for a run with one INSERT / UPDATE and its log entry
WriteOutcomes == {DbUp, [DbUp EXCEPT !.stmt = FALSE], [DbUp EXCEPT !.log = FALSE]}

Reverse(q) == [i \in 1..Len(q) |-> q[Len(q) + 1 - i]]

\* SQL COALESCE(a, b)
COALESCE(a, b) == IF a # None THEN a ELSE b

\* log_action(action, details, patient_id): the rows it appends to logs (the
\* row's timestamp column, datetime.now(), is read by nothing and left out)
log_action(sess, action, details, patient_id, ok) ==
    IF ~sess.authenticated THEN <<>>
    ELSE IF ok
         THEN << [user_id |-> sess.user_id, role |-> sess.role,
                  action |-> action, details |-> details,
                  patient_id |-> patient_id] >>
         ELSE <<>>

\* authenticate_user(username, password): <<user>> or <<>> (None)
authenticate_user(build, username, password) ==
    LET result == SelectSeq(Users,
                      LAMBDA u : u.username = username /\ u.is_active)
    IN IF Len(result) > 0
          /\ verify_password(build, password, result[1].password_hash)
       THEN <<result[1]>>
       ELSE <<>>

IsAnonymized(row) == row.is_anonymized

AsDoctorRow(row) ==
    [patient_id |-> row.patient_id,
     name |-> COALESCE(row.anonymized_name, row.name),
     contact |-> COALESCE(row.anonymized_contact, row.contact),
     diagnosis |-> row.diagnosis,
     is_anonymized |-> row.is_anonymized]

AsReceptionistRow(row) ==
    [patient_id |-> row.patient_id, name |-> row.name,
     contact |-> row.contact, email |-> row.email]

\* get_patients(role)
get_patients(r, pats) ==
    IF r = "admin" THEN Reverse(pats)
    ELSE IF r = "doctor"
         THEN LET rows == Reverse(SelectSeq(pats, IsAnonymized)) IN
              [i \in 1..Len(rows) |-> AsDoctorRow(rows[i])]
         ELSE LET rows == Reverse(pats) IN
              [i \in 1..Len(rows) |-> AsReceptionistRow(rows[i])]

\* the doctor's search by id (doctor_dashboard, tab 2)
doctor_search(patient_id, pats) ==
    LET rows == SelectSeq(pats, LAMBDA row : row.patient_id = patient_id
                                             /\ row.is_anonymized)
    IN [i \in 1..Len(rows) |-> AsDoctorRow(rows[i])]

calculate_retention_date_month(t, days) == t + 30

\* calculate_retention_date(days)
calculate_retention_date(t, days) == t + days

\* add_patient(...): the INSERT, then the log entry.  The columns the INSERT
\* does not name take the table's defaults: NULL for the anonymized_*
\* columns, FALSE for is_anonymized.  date_of_birth, address, blood_group and
\* added_by are stored as given and read by no operation of the model.
add_patient(pats, sess, name, contact, email, diagnosis, consent, t, db) ==
    IF ~db.stmt THEN [patients |-> pats, logs |-> <<>>, result |-> NoId]
    ELSE LET patient_id == Len(pats) + 1
             row == [patient_id |-> patient_id, name |-> name,
                     contact |-> contact, email |-> email,
                     diagnosis |-> diagnosis, consent_given |-> consent,
                     data_retention_date |-> calculate_retention_date(t, 365),
                     anonymized_name |-> None, anonymized_contact |-> None,
                     anonymized_email |-> None, is_anonymized |-> FALSE]
         IN [patients |-> Append(pats, row),
             logs |-> log_action(sess, "add", "Added new patient",
                                 IdOf(patient_id), db.log),
             result |-> IdOf(patient_id)]

\* update_patient(patient_id, name, contact, email, dob)
update_patient(pats, sess, patient_id, name, contact, email, db) ==
    IF ~db.stmt THEN [patients |-> pats, logs |-> <<>>, result |-> FALSE]
    ELSE [patients |->
              [i \in 1..Len(pats) |->
                  IF pats[i].patient_id = patient_id
                  THEN [pats[i] EXCEPT !.name = name, !.contact = contact,
                                       !.email = email]
                  ELSE pats[i]],
          logs |-> log_action(sess, "update", "Updated patient",
                              IdOf(patient_id), db.log),
          result |-> TRUE]

\* anonymize_patient(patient_id)
anonymize_patient(pats, sess, patient_id, db) ==
    LET result == IF db.select
                  THEN SelectSeq(pats, LAMBDA row : row.patient_id = patient_id)
                  ELSE <<>>
        patient == result[1]
        anon_name == anonymize_name(patient.name, IdOf(patient_id))
        anon_contact == mask_contact(patient.contact)
        anon_email == IF ~Falsy(patient.email)
                      THEN mask_email(patient.email) ELSE None
    IN IF Len(result) = 0 THEN [patients |-> pats, logs |-> <<>>, result |-> FALSE]
       ELSE IF IsRaise(anon_email) \/ ~db.stmt
       THEN [patients |-> pats, logs |-> <<>>, result |-> FALSE]
       ELSE    [patients |->
                    [i \in 1..Len(pats) |->
                        IF pats[i].patient_id = patient_id
                        THEN [pats[i] EXCEPT !.anonymized_name = anon_name,
                                             !.anonymized_contact = anon_contact,
                                             !.anonymized_email = anon_email,
                                             !.is_anonymized = TRUE]
                        ELSE pats[i]],
                logs |-> log_action(sess, "anonymize", "Anonymized patient data",
                                    IdOf(patient_id), db.log),
                result |-> TRUE]

-----------------------------------------------------------------------------
(* streamlit_app.py: the session, main() and the dashboards *)

\* init_session_state().  last_activity is written by every dashboard run and
\* read only for display; it is left out.
NewSession ==
    [authenticated |-> FALSE, user_id |-> NoId, username |-> None,
     role |-> RoleNone, gdpr_consent_given |-> FALSE,
     consent_timestamp |-> NoId, edit_patient_data |-> <<>>]

\* a routing that sends a doctor to the receptionist's dashboard
Main_misrouted(sess) ==
    IF ~sess.authenticated THEN "login"
    ELSE IF ~sess.gdpr_consent_given THEN "consent"
    ELSE IF sess.role = "admin" THEN "admin"
    ELSE IF sess.role \in {"doctor", "receptionist"} THEN "receptionist"
    ELSE "none"

\* a main() that goes on to the dashboards without the consent test
Main_without_consent(sess) ==
    IF ~sess.authenticated THEN "login"
    ELSE IF sess.role = "admin" THEN "admin"
    ELSE IF sess.role = "doctor" THEN "doctor"
    ELSE IF sess.role = "receptionist" THEN "receptionist"
    ELSE "none"

\* main(): which page a script run renders
Main(sess) ==
    IF ~sess.authenticated THEN "login"
    ELSE IF ~sess.gdpr_consent_given THEN "consent"
    ELSE IF sess.role = "admin" THEN "admin"
    ELSE IF sess.role = "doctor" THEN "doctor"
    ELSE IF sess.role = "receptionist" THEN "receptionist"
    ELSE "none"

Dashboards == {"admin", "doctor", "receptionist"}

\* the patient table a dashboard shows
PageTable(kind, pats) ==
    IF kind \in Dashboards THEN get_patients(kind, pats) ELSE <<>>

\* the 'view' entry the doctor's and the receptionist's patient list write
\* on every run that shows a non-empty list
ViewLog(sess, kind, pats, db) ==
    IF kind \in {"doctor", "receptionist"} /\ Len(PageTable(kind, pats)) > 0
    THEN log_action(sess, "view",
                    IF kind = "doctor" THEN "Viewed anonymized patient list"
                    ELSE "Viewed patient list",
                    NoId, db.log)
    ELSE <<>>

\* a script run of main() in which no widget fires
Render(sess, pats) ==
    [kind |-> Main(sess), table |-> PageTable(Main(sess), pats), found |-> <<>>,
     error |-> ""]

MaxPatients == 1
MaxTime == 1

NameInputs == {<<>>, <<"A", "l">>, <<"'">>}
ContactA == <<"0", "3", "0", "0", "1", "2", "3", "4", "5", "6">>
ContactInputs == {<<>>, ContactA, <<"1", "2">>}
EmailInputs == {<<>>, <<"a", "@", "b", ".", "c", "o">>, <<"a", "@", "b">>}
DiagnosisInputs == {<<>>, <<"F", "l", "u">>}
BloodInputs == {<<>>, <<"A", "+">>}
LoginNames == {<<>>, <<"e", "v", "e">>} \cup {Users[i].username : i \in 1..Len(Users)}
LoginPasswords == {<<>>, Admin123, <<"x">>}

AppStart ==
    /\ session_state = NewSession
    /\ patients = <<>>
    /\ log_tail = <<>>
    /\ page = Render(NewSession, <<>>)
    /\ now = 0

\* time passes
Tick ==
    /\ now < MaxTime
    /\ now' = now + 1
    /\ UNCHANGED <<session_state, patients, log_tail, page,
                   maskVars, cipherVars, hashVars, utilVars>>

\* login_page(): the login form is submitted
Login ==
    /\ page.kind = "login"
    /\ \E username \in LoginNames, password \in LoginPasswords, db \in LogOutcomes :
         IF Falsy(username) \/ Falsy(password)
         THEN /\ log_tail' = <<>>
              /\ page' = [page EXCEPT
                              !.error = "Please enter both username and password"]
              /\ UNCHANGED session_state
         ELSE LET user == authenticate_user(bcrypt_build, username, password) IN
              IF user # <<>>
              THEN LET sess == [session_state EXCEPT
                                   !.authenticated = TRUE,
                                   !.user_id = IdOf(user[1].user_id),
                                   !.username = user[1].username,
                                   !.role = user[1].role]
                   IN /\ session_state' = sess
                      /\ page' = Render(sess, patients)        \* st.rerun()
                      /\ log_tail' =
                             log_action(sess, "login", "logged in successfully",
                                        NoId, db.log)
                             \o ViewLog(sess, Main(sess), patients, db)
              ELSE /\ log_tail' =
                          log_action(session_state, "login", "Failed login attempt",
                                     NoId, db.log)
                   /\ page' = [page EXCEPT
                                   !.error = "Invalid username or password"]
                   /\ UNCHANGED session_state
    /\ UNCHANGED <<patients, now, maskVars, cipherVars, hashVars, utilVars>>

\* a logout that also forgets the consent
Logout_forgets_consent ==
    /\ page.kind \in Dashboards \cup {"none"}
    /\ \E db \in LogOutcomes :
         LET sess == [session_state EXCEPT
                         !.authenticated = FALSE, !.user_id = NoId,
                         !.username = None, !.role = RoleNone,
                         !.gdpr_consent_given = FALSE,
                         !.consent_timestamp = NoId]
         IN /\ log_tail' = log_action(session_state, "logout", "logged out",
                                      NoId, db.log)
            /\ session_state' = sess
            /\ page' = Render(sess, patients)
    /\ UNCHANGED <<patients, now, maskVars, cipherVars, hashVars, utilVars>>

\* logout(), from the sidebar button of an authenticated, consented run
Logout ==
    /\ page.kind \in Dashboards \cup {"none"}
    /\ \E db \in LogOutcomes :
         LET sess == [session_state EXCEPT
                         !.authenticated = FALSE, !.user_id = NoId,
                         !.username = None, !.role = RoleNone]
         IN /\ log_tail' = log_action(session_state, "logout", "logged out",
                                      NoId, db.log)
            /\ session_state' = sess
            /\ page' = Render(sess, patients)                   \* st.rerun()
    /\ UNCHANGED <<patients, now, maskVars, cipherVars, hashVars, utilVars>>

\* show_gdpr_consent_banner(): "Accept & Continue"
AcceptConsent ==
    /\ page.kind = "consent"
    /\ \E db \in LogOutcomes :
         LET sess == [session_state EXCEPT
                         !.gdpr_consent_given = TRUE,
                         !.consent_timestamp = IdOf(now)]
         IN /\ session_state' = sess
            /\ page' = Render(sess, patients)                   \* st.rerun()
            /\ log_tail' = log_action(sess, "consent", "accepted", NoId, db.log)
                           \o ViewLog(sess, Main(sess), patients, db)
    /\ UNCHANGED <<patients, now, maskVars, cipherVars, hashVars, utilVars>>

\* show_gdpr_consent_banner(): "Decline"; st.stop() ends the run, and every
\* later run starts at the login page
DeclineConsent ==
    /\ page.kind = "consent"
    /\ LET sess == [session_state EXCEPT !.authenticated = FALSE] IN
       /\ session_state' = sess
       /\ page' = Render(sess, patients)
    /\ log_tail' = <<>>
    /\ UNCHANGED <<patients, now, maskVars, cipherVars, hashVars, utilVars>>

\* show_gdpr_consent_banner(): "Revoke Consent" in the sidebar
RevokeConsent ==
    /\ page.kind \in Dashboards \cup {"none"}
    /\ \E db \in LogOutcomes :
         LET sess == [session_state EXCEPT
                         !.gdpr_consent_given = FALSE,
                         !.consent_timestamp = NoId]
         IN /\ session_state' = sess
            /\ page' = Render(sess, patients)                   \* st.rerun()
            /\ log_tail' = log_action(sess, "consent", "revoked", NoId, db.log)
    /\ UNCHANGED <<patients, now, maskVars, cipherVars, hashVars, utilVars>>

\* the checks of the add-patient form (receptionist_dashboard, tab 1)
AddFormValid(name, contact, email, diagnosis, blood_group, consent) ==
    /\ ~Falsy(name)
    /\ ~Falsy(contact) /\ validate_contact(contact)
    /\ Falsy(email) \/ validate_email(email)
    /\ ~Falsy(diagnosis)
    /\ ~Falsy(blood_group)
    /\ consent

\* the checks of the edit-patient form (receptionist_dashboard, tab 3)
EditFormValid(edit_name, edit_contact, edit_email) ==
    /\ ~Falsy(edit_name)
    /\ ~Falsy(edit_contact) /\ validate_contact(edit_contact)
    /\ Falsy(edit_email) \/ validate_email(edit_email)

\* receptionist_dashboard(), tab 1: the add-patient form is submitted; the
\* patient list of tab 2 is drawn afterwards in the same run
SubmitAddPatient ==
    /\ page.kind = "receptionist"
    /\ Len(patients) < MaxPatients
    /\ \E name \in NameInputs, contact \in ContactInputs, email \in EmailInputs,
          diagnosis \in DiagnosisInputs, blood_group \in BloodInputs,
          consent \in BOOLEAN, db \in WriteOutcomes :
         LET out == IF AddFormValid(name, contact, email, diagnosis,
                                    blood_group, consent)
                    THEN add_patient(patients, session_state,
                                     sanitize_input(name, DefaultMaxLength),
                                     contact, email,
                                     sanitize_input(diagnosis, DefaultMaxLength),
                                     consent, now, db)
                    ELSE [patients |-> patients, logs |-> <<>>, result |-> NoId]
         IN /\ patients' = out.patients
            /\ log_tail' = out.logs \o ViewLog(session_state, "receptionist",
                                               out.patients, db)
            /\ page' = Render(session_state, out.patients)
    /\ UNCHANGED <<session_state, now, maskVars, cipherVars, hashVars, utilVars>>

\* receptionist_dashboard(), tab 3: "Load Patient Data".  Of the row it
\* loads the program later uses patient_id (the row the update goes to); name,
\* contact, email and date_of_birth only pre-fill the form, whose content the
\* user decides, and are not kept.
LoadPatient ==
    /\ page.kind = "receptionist"
    /\ \E patient_id \in 1..(Len(patients) + 1), db \in LogOutcomes :
         LET result == SelectSeq(patients,
                           LAMBDA row : row.patient_id = patient_id)
         IN /\ session_state' =
                  [session_state EXCEPT !.edit_patient_data =
                      IF Len(result) > 0
                      THEN << [patient_id |-> result[1].patient_id] >>
                      ELSE <<>>]
            /\ log_tail' = ViewLog(session_state, "receptionist", patients, db)
            /\ page' = Render(session_state', patients)
    /\ UNCHANGED <<patients, now, maskVars, cipherVars, hashVars, utilVars>>

\* receptionist_dashboard(), tab 3: the edit form is submitted.  Tab 2 has
\* drawn the patient list before; a successful update ends in st.rerun().
SubmitEditPatient ==
    /\ page.kind = "receptionist"
    /\ session_state.edit_patient_data # <<>>
    /\ \E edit_name \in NameInputs, edit_contact \in ContactInputs,
          edit_email \in EmailInputs, db \in WriteOutcomes :
         LET patient_data == session_state.edit_patient_data[1]
             before == ViewLog(session_state, "receptionist", patients, db)
             out == IF EditFormValid(edit_name, edit_contact, edit_email)
                    THEN update_patient(patients, session_state,
                                        patient_data.patient_id,
                                        sanitize_input(edit_name, DefaultMaxLength),
                                        edit_contact, edit_email, db)
                    ELSE [patients |-> patients, logs |-> <<>>, result |-> FALSE]
             sess == IF out.result
                     THEN [session_state EXCEPT !.edit_patient_data = <<>>]
                     ELSE session_state
         IN /\ patients' = out.patients
            /\ session_state' = sess
            /\ log_tail' = before \o out.logs \o
                   (IF out.result
                    THEN ViewLog(sess, "receptionist", out.patients, db)
                    ELSE <<>>)
            /\ page' = Render(sess, out.patients)
    /\ UNCHANGED <<now, maskVars, cipherVars, hashVars, utilVars>>

\* admin_dashboard(), tab 2: "Anonymize" on a row of the pending list
AnonymizePatient ==
    /\ page.kind = "admin"
    /\ \E i \in 1..Len(patients), db \in DbOutcomes :
         /\ ~patients[i].is_anonymized
         /\ LET out == anonymize_patient(patients, session_state,
                                         patients[i].patient_id, db)
            IN /\ patients' = out.patients
               /\ log_tail' = out.logs
               /\ page' = Render(session_state, out.patients)
    /\ UNCHANGED <<session_state, now, maskVars, cipherVars, hashVars, utilVars>>

\* doctor_dashboard(), tab 2: "Search"; tab 1 has drawn the list before
SearchPatient ==
    /\ page.kind = "doctor"
    /\ \E patient_id \in 1..(Len(patients) + 1), db \in LogOutcomes :
         LET result == doctor_search(patient_id, patients) IN
         /\ page' = [Render(session_state, patients) EXCEPT !.found = result]
         /\ log_tail' = ViewLog(session_state, "doctor", patients, db)
                \o (IF Len(result) > 0
                    THEN log_action(session_state, "view", "Viewed patient details",
                                    IdOf(patient_id), db.log)
                    ELSE <<>>)
    /\ UNCHANGED <<session_state, patients, now, maskVars, cipherVars, hashVars, utilVars>>

AppNext ==
    \/ Login
    \/ Logout
    \/ AcceptConsent
    \/ DeclineConsent
    \/ RevokeConsent
    \/ SubmitAddPatient
    \/ LoadPatient
    \/ SubmitEditPatient
    \/ AnonymizePatient
    \/ SearchPatient

\* The bcrypt builds differ only on passwords over 72 bytes; no account and
\* no login input of this specification has one.
AppInit ==
    /\ MaskOff /\ CipherOff /\ AppStart /\ UtilOff
    /\ bcrypt_build = "truncate" /\ hashed = {} /\ hashes = {} /\ ver = {}

\* the dashboard while the clock stands still
SpecApp == AppInit /\ [][AppNext]_vars

\* the dashboard with time passing between the script runs
AppClockNext == AppNext \/ Tick

SpecAppClock == AppInit /\ [][AppClockNext]_vars

-----------------------------------------------------------------------------
(* Claims about the dashboard, checked under SpecApp *)

\* the rows of the patients table the current page shows a doctor
DoctorRows == IF page.kind = "doctor" THEN page.table \o page.found ELSE <<>>

\* C5: after any sequence of add, update and anonymize operations, every
\* patient row a doctor can read (the list and the search by id) has
\* is_anonymized = TRUE and shows the stored anonymized name and contact,
\* never the patient's raw name or raw contact.
C5_DoctorSeesAnonymized ==
    \A i \in 1..Len(DoctorRows) :
        LET shown == DoctorRows[i]
            stored == patients[shown.patient_id]
        IN /\ shown.is_anonymized
           /\ shown.name = stored.anonymized_name
           /\ shown.contact = stored.anonymized_contact
           /\ shown.name # stored.name
           /\ shown.contact # stored.contact

\* what the rendered page and the rows a run logged say about the session
C6_State ==
    /\ page.kind \in Dashboards =>
           (session_state.authenticated /\ session_state.role = page.kind)
    /\ session_state.role \notin Dashboards => page.kind \notin Dashboards
    /\ (Len(patients) > 0 /\ page.table = get_patients("admin", patients))
           => session_state.role = "admin"
    /\ Len(page.found) > 0 => session_state.role = "doctor"
    /\ \A i \in 1..Len(log_tail) :
           /\ log_tail[i].action \in {"add", "update"}
                  => log_tail[i].role = "receptionist"
           /\ log_tail[i].action = "anonymize" => log_tail[i].role = "admin"

\* what a change of the patients table says about the session that made it
C6_Step ==
    /\ Len(patients') > Len(patients) => session_state.role = "receptionist"
    /\ \A i \in 1..Len(patients) :
           /\ (patients'[i].name # patients[i].name
               \/ patients'[i].contact # patients[i].contact
               \/ patients'[i].email # patients[i].email)
                  => session_state.role = "receptionist"
           /\ (patients'[i].is_anonymized # patients[i].is_anonymized
               \/ patients'[i].anonymized_name # patients[i].anonymized_name
               \/ patients'[i].anonymized_contact # patients[i].anonymized_contact
               \/ patients'[i].anonymized_email # patients[i].anonymized_email)
                  => session_state.role = "admin"

C11_RetentionDateSetOnce ==
    [][/\ \A i \in 1..Len(patients) :
              /\ i <= Len(patients')
              /\ patients'[i].data_retention_date = patients[i].data_retention_date
       /\ \A i \in (Len(patients) + 1)..Len(patients') :
              patients'[i].data_retention_date = now + 365]_vars

C11_Witness ==
    /\ Len(patients) > 0
    /\ now = 1 /\ patients[1].data_retention_date = 365
    /\ patients[1].is_anonymized
    /\ patients[1].name # <<>> /\ patients[1].email # <<>>

-----------------------------------------------------------------------------
(* Retention classification: utils.py check_retention_expired and the two  *)
(* status queries of admin_dashboard.  Dates and times are counted in days. *)

\* "Data Retention Status" (CASE of retention_status_query)
retention_status(data_retention_date, current_date) ==
    IF data_retention_date > current_date + 30 THEN "Safe (>30 days)"
    ELSE IF data_retention_date > current_date THEN "Expiring Soon (<30 days)"
    ELSE "Expired"

\* "Data Retention Timer" (CASE of retention_details_query)
retention_details_status(data_retention_date, current_date) ==
    IF data_retention_date <= current_date THEN "EXPIRED"
    ELSE IF data_retention_date <= current_date + 30 THEN "EXPIRING SOON"
    ELSE "ACTIVE"

\* an optional date: None, or a date
NoDate == <<>>
DateOf(d) == <<d>>

\* check_retention_expired(retention_date), called at time t
check_retention_expired(t, retention_date) ==
    IF retention_date = NoDate THEN FALSE ELSE t > retention_date[1]

\* the deadlines tried, as distances in days from the time of the call
DeadlineOffsets == {-1, 0, 1, 29, 30, 31}
Times == 0..MaxTime

RetentionStatusQuery ==
    \E t \in Times : \E k \in DeadlineOffsets :
        /\ call = NoCall
        /\ call' = [fn |-> "retention_status", args |-> <<t + k, t>>,
                    out |-> retention_status(t + k, t)]
        /\ UNCHANGED <<maskVars, cipherVars, hashVars, appVars>>

RetentionDetailsQuery ==
    \E t \in Times : \E k \in DeadlineOffsets :
        /\ call = NoCall
        /\ call' = [fn |-> "retention_details_status", args |-> <<t + k, t>>,
                    out |-> retention_details_status(t + k, t)]
        /\ UNCHANGED <<maskVars, cipherVars, hashVars, appVars>>

CheckRetentionExpired ==
    \E t \in Times : \E d \in {DateOf(t + k) : k \in DeadlineOffsets} \cup {NoDate} :
        /\ call = NoCall
        /\ call' = [fn |-> "check_retention_expired", args |-> <<d, t>>,
                    out |-> check_retention_expired(t, d)]
        /\ UNCHANGED <<maskVars, cipherVars, hashVars, appVars>>

-----------------------------------------------------------------------------
(* Direct calls of the functions of utils.py.  The functions keep no state, *)
(* so a behaviour makes one call, with any of the arguments.                *)

MaxId == 2
MaxEmailLen == 4
MaxContactLen == 5
MaxAddressLen == 4
MaxTextLen == 3

\* the strings over an alphabet, up to a length
Strings(alphabet, n) == UNION {[1..k -> alphabet] : k \in 0..n}

JohnDoeEmail ==
    <<"j", "o", "h", "n", ".", "d", "o", "e", "@",
      "e", "m", "a", "i", "l", ".", "c", "o", "m">>
IntlContact == <<"+", "9", "2", "3", "0", "0", "1", "2", "3", "4", "5", "6", "7">>
KarachiAddress ==
    <<"1", "2", "3", " ", "M", "a", "i", "n", " ", "S", "t", ",", " ",
      "K", "a", "r", "a", "c", "h", "i">>

NameArgs == {None, <<>>, <<"A", "l">>, <<"B", "o">>, <<" ">>}
IdArgs == {NoId, IdOf(1021), IdOf(12345)} \cup {IdOf(n) : n \in 0..MaxId}
EmailArgs == {None, JohnDoeEmail} \cup Strings({"a", "@", "."}, MaxEmailLen)
ContactArgs == {None, IntlContact} \cup Strings({"1", "2", "3", "-"}, MaxContactLen)
AddressArgs == {None, KarachiAddress} \cup Strings({"a", ",", " "}, MaxAddressLen)
DiagnosisArgs == {None} \cup Strings({"f", " "}, MaxAddressLen)
MaskLevels == {"partial", "full"}

AnonymizeName ==
    \E name \in NameArgs : \E patient_id \in IdArgs :
        /\ call = NoCall
        /\ call' = [fn |-> "anonymize_name", args |-> <<name, patient_id>>,
                    out |-> anonymize_name(name, patient_id)]
        /\ UNCHANGED <<maskVars, cipherVars, hashVars, appVars>>

MaskContact ==
    \E contact \in ContactArgs :
        /\ call = NoCall
        /\ call' = [fn |-> "mask_contact", args |-> <<contact>>,
                    out |-> mask_contact(contact)]
        /\ UNCHANGED <<maskVars, cipherVars, hashVars, appVars>>

MaskEmail ==
    \E email \in EmailArgs :
        /\ call = NoCall
        /\ call' = [fn |-> "mask_email", args |-> <<email>>,
                    out |-> mask_email(email)]
        /\ UNCHANGED <<maskVars, cipherVars, hashVars, appVars>>

AnonymizeAddress ==
    \E address \in AddressArgs :
        /\ call = NoCall
        /\ call' = [fn |-> "anonymize_address", args |-> <<address>>,
                    out |-> anonymize_address(address)]
        /\ UNCHANGED <<maskVars, cipherVars, hashVars, appVars>>

MaskDiagnosis ==
    \E diagnosis \in DiagnosisArgs : \E mask_level \in MaskLevels :
        /\ call = NoCall
        /\ call' = [fn |-> "mask_diagnosis", args |-> <<diagnosis, mask_level>>,
                    out |-> mask_diagnosis(diagnosis, mask_level)]
        /\ UNCHANGED <<maskVars, cipherVars, hashVars, appVars>>

\* n decimal digits
Digits(n) == [i \in 1..n |-> DigitChars[(i % 10) + 1]]

DigitCounts == {0, 9, 10, 15, 16}

PhoneArgs ==
    {None}
    \cup {pre \o Digits(n) \o suf :
              pre \in {<<>>, <<"+">>, <<" ">>, <<"+", "+">>},
              n \in DigitCounts,
              suf \in {<<>>, <<"\n">>, <<" ">>, <<"a">>, <<"\n", "\n">>}}
    \cup {Digits(5) \o <<c>> \o Digits(5) : c \in {"-", " ", "\n", "a", "+"}}

LongText == Repeat("a", DefaultMaxLength) \o <<";", "b">>
TextArgs ==
    {None, LongText} \cup Strings({"a", "-", ";", "'", "\"", "\\"}, MaxTextLen)
LengthArgs == 0..(MaxTextLen + 1) \cup {DefaultMaxLength}

ValidateContact ==
    \E contact \in PhoneArgs :
        /\ call = NoCall
        /\ call' = [fn |-> "validate_contact", args |-> <<contact>>,
                    out |-> validate_contact(contact)]
        /\ UNCHANGED <<maskVars, cipherVars, hashVars, appVars>>

ValidateEmail ==
    \E email \in EmailArgs \cup {JohnDoeEmail \o <<"\n">>} :
        /\ call = NoCall
        /\ call' = [fn |-> "validate_email", args |-> <<email>>,
                    out |-> validate_email(email)]
        /\ UNCHANGED <<maskVars, cipherVars, hashVars, appVars>>

SanitizeInput ==
    \E text \in TextArgs : \E max_length \in LengthArgs :
        /\ call = NoCall
        /\ call' = [fn |-> "sanitize_input", args |-> <<text, max_length>>,
                    out |-> sanitize_input(text, max_length)]
        /\ UNCHANGED <<maskVars, cipherVars, hashVars, appVars>>

UtilNext ==
    \/ AnonymizeName
    \/ MaskContact
    \/ MaskEmail
    \/ AnonymizeAddress
    \/ MaskDiagnosis
    \/ ValidateContact
    \/ ValidateEmail
    \/ SanitizeInput
    \/ RetentionStatusQuery
    \/ RetentionDetailsQuery
    \/ CheckRetentionExpired

UtilInit ==
    /\ MaskOff /\ CipherOff /\ HashOff /\ AppOff
    /\ call = NoCall

SpecUtil == UtilInit /\ [][UtilNext]_vars

-----------------------------------------------------------------------------
(* Claims about the functions of utils.py and the retention queries,       *)
(* checked under SpecUtil                                                   *)

\* the classification rule: expired when deadline <= now, expiring_soon when
\* now < deadline <= now + 30 days, active otherwise
C12_Rule(deadline, t) ==
    IF deadline <= t THEN "expired"
    ELSE IF deadline <= t + 30 THEN "expiring_soon"
    ELSE "active"

\* C12: each retention classification of the code (the two dashboard status
\* queries and check_retention_expired) agrees with the rule; a deadline
\* equal to now is expired, one equal to now + 30 days is expiring_soon.
C12_RetentionClasses ==
    /\ call.fn = "retention_status" =>
           call.out = (CASE C12_Rule(call.args[1], call.args[2]) = "expired"
                                -> "Expired"
                         [] C12_Rule(call.args[1], call.args[2]) = "expiring_soon"
                                -> "Expiring Soon (<30 days)"
                         [] OTHER -> "Safe (>30 days)")
    /\ call.fn = "retention_details_status" =>
           call.out = (CASE C12_Rule(call.args[1], call.args[2]) = "expired"
                                -> "EXPIRED"
                         [] C12_Rule(call.args[1], call.args[2]) = "expiring_soon"
                                -> "EXPIRING SOON"
                         [] OTHER -> "ACTIVE")
    /\ (call.fn = "check_retention_expired" /\ call.args[1] # NoDate) =>
           (call.out <=> C12_Rule(call.args[1][1], call.args[2]) = "expired")

\* C13: mask_email returns None when email has no '@'; otherwise the first
\* character of the local part, then one '*' when the local part has length
\* <= 2 and (length - 1) '*' otherwise, then '@' and everything of the input
\* after the local part's '@', unchanged.
C13_MaskEmail ==
    (call.fn = "mask_email" /\ call.args[1] # None) =>
        LET email == call.args[1]
            at == Min({i \in 1..Len(email) : email[i] = "@"})
            local == SubSeq(email, 1, at - 1)
            domain == SubSeq(email, at + 1, Len(email))
        IN IF \A i \in 1..Len(email) : email[i] # "@" THEN call.out = None
           ELSE /\ Len(local) > 0
                /\ call.out = <<local[1]>>
                                \o [i \in 1..(IF Len(local) <= 2 THEN 1
                                              ELSE Len(local) - 1) |-> "*"]
                                \o <<"@">> \o domain

\* C14: mask_email("john.doe@email.com") returns "j***@email.com".
C14_DocstringExample ==
    (call.fn = "mask_email" /\ call.args[1] = JohnDoeEmail) =>
        call.out = <<"j", "*", "*", "*", "@",
                     "e", "m", "a", "i", "l", ".", "c", "o", "m">>

\* C15: anonymize_name, mask_contact, mask_email, anonymize_address and
\* mask_diagnosis never raise: for every input they return a string or None.
C15_AnonymizersTotal ==
    call.fn \in {"anonymize_name", "mask_contact", "mask_email",
                 "anonymize_address", "mask_diagnosis"}
        => ~IsRaise(call.out)

\* C16: for every non-empty name and every supplied integer id, 0 included,
\* anonymize_name(name, id) is 'ANON_' followed by id zero-padded to 4
\* digits, whatever the name.
C16_AnonNameFromId ==
    (call.fn = "anonymize_name" /\ ~Falsy(call.args[1]) /\ call.args[2] # NoId) =>
        call.out = <<"A", "N", "O", "N", "_">>
                       \o ZeroPad(DecStr(call.args[2][1]), 4)

\* the positions of s holding a character of chars, and the j-th of them
C17_Positions(s, chars) == {i \in 1..Len(s) : s[i] \in chars}
C17_Nth(P, j) == CHOOSE i \in P : Cardinality({k \in P : k <= i}) = j

\* C17: for a non-empty contact, mask_contact returns 'XXX-XXX-' followed by
\* the last 4 digit characters of contact when it has at least 4 digits and
\* 'XXX-XXX-XXXX' when it has fewer; for empty or None input it returns
\* None.  No digit other than the last four appears in the result.
C17_MaskContact ==
    call.fn = "mask_contact" =>
        LET contact == call.args[1]
            P == C17_Positions(contact, AsciiDigits)
            n == Cardinality(P)
        IN IF contact = None \/ contact = <<>> THEN call.out = None
           ELSE /\ Len(call.out) = 12
                /\ SubSeq(call.out, 1, 8) = <<"X", "X", "X", "-", "X", "X", "X", "-">>
                /\ \A j \in 1..4 :
                       call.out[8 + j] = IF n >= 4
                                         THEN contact[C17_Nth(P, n - 4 + j)]
                                         ELSE "X"

C17_Witness ==
    /\ call.fn = "mask_contact" /\ call.args[1] = IntlContact
    /\ call.out = <<"X", "X", "X", "-", "X", "X", "X", "-", "4", "5", "6", "7">>

\* C18: for every string address, anonymize_address returns '*****, '
\* followed by the part after the last comma (and nothing from before it)
\* when address has a comma, and exactly '*****' when it has none.
C18_AnonymizeAddress ==
    (call.fn = "anonymize_address" /\ call.args[1] # None) =>
        LET address == call.args[1]
            commas == C17_Positions(address, {","})
        IN IF commas = {} THEN call.out = <<"*", "*", "*", "*", "*">>
           ELSE call.out = <<"*", "*", "*", "*", "*", ",", " ">>
                               \o Strip(SubSeq(address, Max(commas) + 1, Len(address)))

\* C19: validate_contact(s) is true exactly when all of s is an optional
\* leading '+' followed by 10 to 15 decimal digits, with no other character
\* before, inside or after; it is false for the empty string and None.
C19_ValidateContact ==
    call.fn = "validate_contact" =>
        LET s == call.args[1]
            body == IF Len(s) > 0 /\ s[1] = "+" THEN SubSeq(s, 2, Len(s)) ELSE s
        IN call.out <=> /\ s # None
                        /\ Len(body) \in 10..15
                        /\ \A i \in 1..Len(body) : body[i] \in AsciiDigits

\* C20: for every text and max_length >= 0, sanitize_input returns the text
\* without its ; ' " \ characters, the others kept in order, cut to its
\* first max_length characters; empty or None input gives the empty string.
C20_SanitizeInput ==
    (call.fn = "sanitize_input" /\ call.args[2] >= 0) =>
        LET text == call.args[1]
            P == IF text = None THEN {}
                 ELSE {i \in 1..Len(text) : text[i] \notin {";", "'", "\"", "\\"}}
            n == Cardinality(P)
        IN /\ Len(call.out) = IF n <= call.args[2] THEN n ELSE call.args[2]
           /\ \A j \in 1..Len(call.out) : call.out[j] = text[C17_Nth(P, j)]

C20_Witness ==
    /\ call.fn = "sanitize_input" /\ call.args[1] = LongText
    /\ call.args[2] = DefaultMaxLength
    /\ call.out = [i \in 1..500 |-> "a"]

-----------------------------------------------------------------------------
(* Claims about the session, the audit log and the stored rows *)

\* the kinds of log entry a dashboard writes for its patient queries
DataActions == {"view", "add", "update", "anonymize"}

C21_State ==
    (\/ page.kind \in Dashboards
     \/ Len(page.table) > 0 \/ Len(page.found) > 0
     \/ \E i \in 1..Len(log_tail) : log_tail[i].action \in DataActions)
        => (session_state.authenticated /\ session_state.gdpr_consent_given)

C21_Step ==
    /\ patients' # patients =>
           (session_state.authenticated /\ session_state.gdpr_consent_given)
    /\ (~session_state.gdpr_consent_given /\ session_state'.gdpr_consent_given)
           => (page.kind = "consent" /\ session_state.authenticated)
    /\ (~session_state.authenticated /\ session_state'.authenticated)
           => /\ page.kind = "login"
              /\ \E i \in 1..Len(Users) :
                     /\ Users[i].is_active
                     /\ session_state'.username = Users[i].username

\* C21: a dashboard is rendered, and a patient query is run for the user,
\* only when the session is authenticated and gdpr_consent_given is true;
\* consent comes back only through the banner's Accept, authentication only
\* through a successful login.
C21_ConsentGate == []C21_State /\ [][C21_Step]_vars

C21_Witness ==
    /\ session_state.authenticated /\ ~session_state.gdpr_consent_given
    /\ session_state.role = "admin" /\ page.kind = "consent"
    /\ Len(patients) > 0 /\ Len(page.table) = 0
    /\ Len(log_tail) = 1 /\ log_tail[1].action = "consent"

\* C22: for a record with non-empty name, contact, email, diagnosis and
\* address, mask_sensitive_data returns a record value-equal to the input
\* only when role is 'admin'; for every other role string at least one of
\* those fields is masked in the result.
C22_OnlyAdminUnmasked ==
    (/\ pc = "returned" /\ mutations = 0
     /\ {"name", "contact", "email", "diagnosis", "address"} \subseteq DOMAIN given
     /\ \A f \in {"name", "contact", "email", "diagnosis", "address"} :
            ~Falsy(given[f])
     /\ \A f \in {"name", "contact", "email", "diagnosis", "address"} :
            Returned[f] = given[f])
        => role = "admin"

\* C23: every failed login attempt (unknown username, inactive user or wrong
\* password) adds a 'login' entry to the audit log, as every successful
\* login does.
C23_FailedLoginLogged ==
    (page.kind = "login" /\ page.error = "Invalid username or password")
        => \E i \in 1..Len(log_tail) : log_tail[i].action = "login"

C24_State ==
    \A i \in 1..Len(patients) :
        patients[i].is_anonymized =>
            /\ patients[i].anonymized_name =
                   anonymize_name(patients[i].name, IdOf(patients[i].patient_id))
            /\ patients[i].anonymized_contact = mask_contact(patients[i].contact)
            /\ patients[i].anonymized_email = mask_email(patients[i].email)

C24_Step ==
    \A i \in 1..Len(patients) :
        patients[i].is_anonymized =>
            (i <= Len(patients') /\ patients'[i].is_anonymized)

\* C24: every patient row with is_anonymized = TRUE has anonymized fields
\* that match its current raw fields (anonymize_name(name, patient_id),
\* mask_contact(contact), mask_email(email)), and is_anonymized, once TRUE,
\* never becomes FALSE again.
C24_AnonymizedInStep == []C24_State /\ [][C24_Step]_vars

\* the entry of the given action and patient the latest run logged for the
\* acting user
C25_Logged(action, patient_id) ==
    \E i \in 1..Len(log_tail') :
        /\ log_tail'[i].action = action
        /\ log_tail'[i].patient_id = IdOf(patient_id)
        /\ log_tail'[i].user_id = session_state.user_id

C25_Step ==
    /\ \A i \in (Len(patients) + 1)..Len(patients') :
           C25_Logged("add", patients'[i].patient_id)
    /\ \A i \in 1..Len(patients) :
           /\ (patients'[i].name # patients[i].name
               \/ patients'[i].contact # patients[i].contact
               \/ patients'[i].email # patients[i].email)
                  => C25_Logged("update", patients[i].patient_id)
           /\ patients'[i].is_anonymized # patients[i].is_anonymized
                  => C25_Logged("anonymize", patients[i].patient_id)
    /\ \A j \in 1..Len(log_tail') :
           /\ log_tail'[j].action = "add" => Len(patients') > Len(patients)
           /\ log_tail'[j].action = "anonymize" =>
                  \E i \in 1..Len(patients) :
                      /\ IdOf(patients[i].patient_id) = log_tail'[j].patient_id
                      /\ ~patients[i].is_anonymized /\ patients'[i].is_anonymized

\* C25: add_patient, update_patient and anonymize_patient write their log
\* entry (action, acting user, patient id) exactly when their change of the
\* patients table was committed: no committed change is left without its
\* entry, and a failed change writes none.
C25_LoggedIffCommitted == [][C25_Step]_vars

\* C26: every patient row written through the add-patient or edit-patient
\* form satisfies, as stored, the rules the form checks: name non-empty,
\* contact accepted by validate_contact, email empty or accepted by
\* validate_email, diagnosis non-empty and consent_given true.
C26_StoredRowsValid ==
    \A i \in 1..Len(patients) :
        /\ patients[i].name # <<>> /\ patients[i].name # None
        /\ validate_contact(patients[i].contact)
        /\ patients[i].email = <<>> \/ validate_email(patients[i].email)
        /\ patients[i].diagnosis # <<>>
        /\ patients[i].consent_given

C27_Step ==
    /\ (session_state.authenticated /\ ~session_state'.authenticated
        /\ page.kind # "consent") =>
           /\ session_state'.user_id = NoId
           /\ session_state'.username = None
           /\ session_state'.role = RoleNone
           /\ session_state'.gdpr_consent_given = session_state.gdpr_consent_given
           /\ session_state'.consent_timestamp = session_state.consent_timestamp
           /\ session_state.gdpr_consent_given
    /\ (~session_state.authenticated /\ session_state'.authenticated
        /\ session_state.gdpr_consent_given) =>
           /\ session_state'.gdpr_consent_given
           /\ session_state'.consent_timestamp = session_state.consent_timestamp
           /\ page'.kind # "consent"
           /\ page'.kind = IF session_state'.role \in Dashboards
                           THEN session_state'.role ELSE "none"

\* C27: logout sets authenticated to False and user_id, username and role to
\* None and leaves gdpr_consent_given and consent_timestamp unchanged; the
\* next user who logs in within the session reaches the dashboard without
\* being shown the consent banner.
C27_LogoutKeepsConsent == [][C27_Step]_vars

\* a run that logged a user in and rendered a dashboard straight away: the
\* consent it relies on was accepted before the preceding logout
C27_Witness ==
    /\ session_state.authenticated /\ session_state.gdpr_consent_given
    /\ session_state.consent_timestamp # NoId
    /\ page.kind \in Dashboards
    /\ Len(log_tail) > 0 /\ log_tail[1].action = "login"

====
